---------------------------- MODULE Spec2Model ----------------------------
(***************************************************************************)
(* Mermaid validator (src/index.js): the POST /validate handler and the    *)
(* line-oriented checker behind it (validateMermaidSyntax,                 *)
(* validateFlowchart, validateSequenceDiagram, detectDiagramType,          *)
(* countNodes).                                                            *)
(*                                                                         *)
(* A JavaScript string is a sequence of one-character strings, so that     *)
(* split, trim, startsWith, includes and the regular expressions of the    *)
(* source are computed character by character.  A JavaScript object is a   *)
(* record that carries the set of its own property names in "keys"; a      *)
(* property that is not in "keys" is undefined and holds a filler value.   *)
(* A message built by a template literal is the sequence of its pieces     *)
(* (the literal text, then the decimal digits of the number).              *)
(***************************************************************************)
EXTENDS Integers, Sequences, FiniteSets, TLC

VARIABLES diagram, validation, response, op

vars == <<diagram, validation, response, op>>

(***************************************************************************)
(* Character classes of the JavaScript regular expressions and of trim().  *)
(***************************************************************************)
Lower == {"a", "b", "c", "d", "e", "f", "g", "h", "i", "j", "k", "l", "m",
          "n", "o", "p", "q", "r", "s", "t", "u", "v", "w", "x", "y", "z"}

Upper == {"A", "B", "C", "D", "E", "F", "G", "H", "I", "J", "K", "L", "M",
          "N", "O", "P", "Q", "R", "S", "T", "U", "V", "W", "X", "Y", "Z"}

Digit == <<"0", "1", "2", "3", "4", "5", "6", "7", "8", "9">>

\* \w
WordChars == Lower \cup Upper \cup {Digit[k] : k \in 1..10} \cup {"_"}

\* \s, and what trim() strips
WhiteSpace == {" ", "\t", "\n", "\r", "\f"}

\* what "." does not match
LineTerminators == {"\n", "\r"}

SetMin(S) == CHOOSE m \in S : \A n \in S : m <= n

SetMax(S) == CHOOSE m \in S : \A n \in S : m >= n

(***************************************************************************)
(* The string literals of the source, as character sequences.              *)
(***************************************************************************)
chars ==
     ("graph" :> <<"g", "r", "a", "p", "h">>)
  @@ ("flowchart" :> <<"f", "l", "o", "w", "c", "h", "a", "r", "t">>)
  @@ ("sequenceDiagram" :> <<"s", "e", "q", "u", "e", "n", "c", "e", "D", "i", "a", "g", "r", "a", "m">>)
  @@ ("classDiagram" :> <<"c", "l", "a", "s", "s", "D", "i", "a", "g", "r", "a", "m">>)
  @@ ("stateDiagram" :> <<"s", "t", "a", "t", "e", "D", "i", "a", "g", "r", "a", "m">>)
  @@ ("erDiagram" :> <<"e", "r", "D", "i", "a", "g", "r", "a", "m">>)
  @@ ("gitGraph" :> <<"g", "i", "t", "G", "r", "a", "p", "h">>)
  @@ ("journey" :> <<"j", "o", "u", "r", "n", "e", "y">>)
  @@ ("gantt" :> <<"g", "a", "n", "t", "t">>)
  @@ ("pie" :> <<"p", "i", "e">>)
  @@ ("quadrantChart" :> <<"q", "u", "a", "d", "r", "a", "n", "t", "C", "h", "a", "r", "t">>)
  @@ ("mindmap" :> <<"m", "i", "n", "d", "m", "a", "p">>)
  @@ ("timeline" :> <<"t", "i", "m", "e", "l", "i", "n", "e">>)
  @@ ("%%" :> <<"%", "%">>)
  @@ ("subgraph" :> <<"s", "u", "b", "g", "r", "a", "p", "h">>)
  @@ ("end" :> <<"e", "n", "d">>)
  @@ ("participant" :> <<"p", "a", "r", "t", "i", "c", "i", "p", "a", "n", "t">>)
  @@ ("-->" :> <<"-", "-", ">">>)
  @@ ("---" :> <<"-", "-", "-">>)
  @@ ("-.->" :> <<"-", ".", "-", ">">>)
  @@ ("==>" :> <<"=", "=", ">">>)
  @@ ("->>" :> <<"-", ">", ">">>)
  @@ ("-->>" :> <<"-", "-", ">", ">">>)

(***************************************************************************)
(* String.prototype methods.                                               *)
(***************************************************************************)
\* s.substring(i - 1) with a 1-based i
from(s, i) == SubSeq(s, i, Len(s))

\* p occurs in s at the 1-based position i
matchAt(s, p, i) == i >= 1 /\ i + Len(p) - 1 <= Len(s) /\ SubSeq(s, i, i + Len(p) - 1) = p

startsWith(s, p) == matchAt(s, p, 1)

includes(s, p) == \E i \in 1..(Len(s) + 1) : matchAt(s, p, i)

trim(s) ==
  LET keep == {i \in 1..Len(s) : s[i] \notin WhiteSpace}
  IN  IF keep = {} THEN <<>> ELSE SubSeq(s, SetMin(keep), SetMax(keep))

RECURSIVE split(_, _)
\* s.split(sep) for a separator of one character
split(s, sep) ==
  LET at == {i \in 1..Len(s) : s[i] = sep}
  IN  IF at = {} THEN <<s>>
      ELSE <<SubSeq(s, 1, SetMin(at) - 1)>> \o split(from(s, SetMin(at) + 1), sep)

RECURSIVE join(_, _)
\* pieces.join(sep), as the sequence of the pieces and the separators
join(pieces, sep) ==
  IF Len(pieces) = 0 THEN <<>>
  ELSE IF Len(pieces) = 1 THEN <<pieces[1]>>
  ELSE <<pieces[1], sep>> \o join(Tail(pieces), sep)

RECURSIVE toString(_)
\* `${n}` for a natural number n: its decimal digits
toString(n) ==
  IF n < 10 THEN <<Digit[n + 1]>>
  ELSE toString(n \div 10) \o <<Digit[(n % 10) + 1]>>

\* (line.match(/c/g) || []).length for a single escaped character c
countOf(line, c) == Cardinality({i \in 1..Len(line) : line[i] = c})

RECURSIVE runEnd(_, _, _)
\* the end of the maximal run of characters of class C that starts at i
\* (i - 1 when s[i] is not in C): what a greedy C* consumes
runEnd(s, C, i) ==
  IF i > Len(s) \/ s[i] \notin C THEN i - 1 ELSE runEnd(s, C, i + 1)

(***************************************************************************)
(* The regular expressions of the source.                                  *)
(***************************************************************************)
\* "." at position i
dotAt(s, i) == i >= 1 /\ i <= Len(s) /\ s[i] \notin LineTerminators

\* /-->|---|-.->|==>/ at position i: what each alternative consumes there, in
\* the order of the alternation (0: the alternative does not match); the "."
\* of the third alternative is unescaped in the source and matches any
\* character of a line
arrowAlternatives(s, i) ==
  << IF matchAt(s, chars["-->"], i) THEN 3 ELSE 0,
     IF matchAt(s, chars["---"], i) THEN 3 ELSE 0,
     IF matchAt(s, <<"-">>, i) /\ dotAt(s, i + 1) /\ matchAt(s, <<"-", ">">>, i + 2)
       THEN 4 ELSE 0,
     IF matchAt(s, chars["==>"], i) THEN 3 ELSE 0 >>

\* the length /-->|---|-.->|==>/ matches at i on its own: the first alternative
\* that matches (0: none)
arrowAt(s, i) ==
  LET alts == arrowAlternatives(s, i)
      hit  == {k \in 1..Len(alts) : alts[k] > 0}
  IN  IF hit = {} THEN 0 ELSE alts[SetMin(hit)]

RECURSIVE splitArrow(_)
\* s.split(/-->|---|-.->|==>/)
splitArrow(s) ==
  LET at == {i \in 1..Len(s) : arrowAt(s, i) > 0}
  IN  IF at = {} THEN <<s>>
      ELSE <<SubSeq(s, 1, SetMin(at) - 1)>>
             \o splitArrow(from(s, SetMin(at) + arrowAt(s, SetMin(at))))

\* messageMatch as it would be if the expression ended at the arrow:
\* /(\w+)\s*(->>|-->>)/
messageMatch_leftOnly(line) ==
  \E i \in 1..Len(line) :
    /\ line[i] \in WordChars
    /\ LET q == runEnd(line, WhiteSpace, runEnd(line, WordChars, i) + 1) + 1
       IN  \E arrow \in {chars["->>"], chars["-->>"]} : matchAt(line, arrow, q)

\* line.match(/(\w+)\s*(->>|-->>)\s*(\w+)/) is not null: the expression is
\* not anchored, so one occurrence anywhere in the line is a match
messageMatch(line) ==
  \E i \in 1..Len(line) :
    /\ line[i] \in WordChars
    /\ LET q == runEnd(line, WhiteSpace, runEnd(line, WordChars, i) + 1) + 1
       IN  \E arrow \in {chars["->>"], chars["-->>"]} :
             /\ matchAt(line, arrow, q)
             /\ LET r == runEnd(line, WhiteSpace, q + Len(arrow)) + 1
                IN  r <= Len(line) /\ line[r] \in WordChars

\* the positions where /participant\s+(\w+)/ matches in line
participantAt(line) ==
  {p \in 1..Len(line) :
     /\ matchAt(line, chars["participant"], p)
     /\ LET w == p + Len(chars["participant"])
            r == runEnd(line, WhiteSpace, w) + 1
        IN  r > w /\ r <= Len(line) /\ line[r] \in WordChars}

\* match[1] of line.match(/participant\s+(\w+)/), for a line that matches
participantName(line) ==
  LET p == SetMin(participantAt(line))
      r == runEnd(line, WhiteSpace, p + Len(chars["participant"])) + 1
  IN  SubSeq(line, r, runEnd(line, WordChars, r))

(***************************************************************************)
(* The objects validateMermaidSyntax returns.                              *)
(***************************************************************************)
\* { isValid: false, error, line, suggestions }
invalidAt(error, line, suggestions) ==
  [keys |-> {"isValid", "error", "line", "suggestions"}, isValid |-> FALSE,
   error |-> error, line |-> line, suggestions |-> suggestions]

\* { isValid: false, error, suggestions }: no line property
invalidNoLine(error, suggestions) ==
  [keys |-> {"isValid", "error", "suggestions"}, isValid |-> FALSE,
   error |-> error, line |-> 0, suggestions |-> suggestions]

\* { isValid: true }
valid ==
  [keys |-> {"isValid"}, isValid |-> TRUE, error |-> <<>>, line |-> 0,
   suggestions |-> <<>>]

\* a loop that ended without a return statement
noReturn ==
  [keys |-> {}, isValid |-> FALSE, error |-> <<>>, line |-> 0,
   suggestions |-> <<>>]

validTypes ==
  <<"graph", "flowchart", "sequenceDiagram", "classDiagram", "stateDiagram",
    "erDiagram", "gitGraph", "journey", "gantt", "pie", "quadrantChart",
    "mindmap", "timeline">>

\* the for-of loop that sets hasValidType
hasValidType(firstLine) ==
  \E k \in 1..Len(validTypes) : startsWith(firstLine, chars[validTypes[k]])

\* `Invalid diagram type. Must start with one of: ${validTypes.join(', ')}`
typeError ==
  <<"Invalid diagram type. Must start with one of: ">> \o join(validTypes, ", ")

\* skipped as it would be if only empty lines were skipped
skipped_emptyOnly(line) == line = <<>>

\* the test that skips empty lines and comments, on a trimmed line
skipped(line) == line = <<>> \/ startsWith(line, chars["%%"])

(***************************************************************************)
(* validateFlowchart(lines): i is the 0-based loop index of the source.    *)
(***************************************************************************)
\* nextInSubgraph as it would be if "end" were tested with startsWith
nextInSubgraph_prefixEnd(line, inSubgraph) ==
  IF startsWith(line, chars["subgraph"]) THEN TRUE
  ELSE IF startsWith(line, chars["end"]) THEN FALSE
  ELSE inSubgraph

\* the value of inSubgraph after the if / else if on a line
nextInSubgraph(line, inSubgraph) ==
  IF startsWith(line, chars["subgraph"]) THEN TRUE
  ELSE IF line = chars["end"] THEN FALSE
  ELSE inSubgraph

\* the condition of the arrow check
hasArrow(line) ==
  \/ includes(line, chars["-->"])
  \/ includes(line, chars["---"])
  \/ includes(line, chars["-.->"])
  \/ includes(line, chars["==>"])

RECURSIVE flowchartLoop(_, _, _)
flowchartLoop(lines, i, inSubgraph) ==
  IF i >= Len(lines)
  THEN IF inSubgraph
       THEN invalidNoLine(<<"Unclosed subgraph">>,
                          <<"Add \"end\" to close the subgraph">>)
       ELSE valid
  ELSE LET line == trim(lines[i + 1])
       IN  IF skipped(line) THEN flowchartLoop(lines, i + 1, inSubgraph)
           ELSE IF hasArrow(line) /\ Len(splitArrow(line)) < 2
                THEN invalidAt(<<"Invalid arrow syntax on line ">> \o toString(i + 1),
                               i + 1, <<"Check that arrows connect two nodes">>)
                ELSE flowchartLoop(lines, i + 1, nextInSubgraph(line, inSubgraph))

validateFlowchart(lines) == flowchartLoop(lines, 0, FALSE)

(***************************************************************************)
(* validateSequenceDiagram(lines)                                          *)
(***************************************************************************)
\* the participants set after the "Extract participants" step on a line
nextParticipants(line, participants) ==
  IF startsWith(line, chars["participant"]) /\ participantAt(line) # {}
  THEN participants \cup {participantName(line)}
  ELSE participants

\* the condition of the message check
hasMessageArrow(line) ==
  includes(line, chars["->>"]) \/ includes(line, chars["-->>"])

RECURSIVE sequenceLoop(_, _, _)
sequenceLoop(lines, i, participants) ==
  IF i >= Len(lines) THEN valid
  ELSE LET line == trim(lines[i + 1])
       IN  IF skipped(line) THEN sequenceLoop(lines, i + 1, participants)
           ELSE IF hasMessageArrow(line) /\ ~messageMatch(line)
                THEN invalidAt(<<"Invalid message syntax on line ">> \o toString(i + 1),
                               i + 1, <<"Use format: Actor1->>Actor2: Message">>)
                ELSE sequenceLoop(lines, i + 1, nextParticipants(line, participants))

validateSequenceDiagram(lines) == sequenceLoop(lines, 0, {})

(***************************************************************************)
(* validateMermaidSyntax(diagram)                                          *)
(***************************************************************************)
\* the three delimiter tests on a trimmed content line, at loop index i
unmatched(line, i) ==
  IF countOf(line, "[") # countOf(line, "]")
  THEN invalidAt(<<"Unmatched square brackets on line ">> \o toString(i + 1),
                 i + 1, <<"Check that all [ have matching ]">>)
  ELSE IF countOf(line, "(") # countOf(line, ")")
  THEN invalidAt(<<"Unmatched parentheses on line ">> \o toString(i + 1),
                 i + 1, <<"Check that all ( have matching )">>)
  ELSE IF countOf(line, "{") # countOf(line, "}")
  THEN invalidAt(<<"Unmatched curly braces on line ">> \o toString(i + 1),
                 i + 1, <<"Check that all { have matching }">>)
  ELSE noReturn

RECURSIVE bracketLoop(_, _)
\* the "common syntax errors" loop: the object it returns, or noReturn
bracketLoop(lines, i) ==
  IF i >= Len(lines) THEN noReturn
  ELSE LET line == trim(lines[i + 1])
           r    == unmatched(line, i)
       IN  IF skipped(line) THEN bracketLoop(lines, i + 1)
           ELSE IF r # noReturn THEN r
           ELSE bracketLoop(lines, i + 1)

\* firstLineOf as it would be if the type were read from the first line that
\* is neither blank nor a comment
firstLineOf_skipBlank(lines) ==
  LET content == {n \in 1..Len(lines) : ~skipped(trim(lines[n]))}
  IN  IF content = {} THEN <<>> ELSE trim(lines[SetMin(content)])

\* const firstLine = lines[0].trim()
firstLineOf(lines) == trim(lines[1])

\* the dispatch on the diagram type after the delimiter loop
validateByType(lines) ==
  IF \/ startsWith(firstLineOf(lines), chars["graph"])
     \/ startsWith(firstLineOf(lines), chars["flowchart"])
  THEN validateFlowchart(lines)
  ELSE IF startsWith(firstLineOf(lines), chars["sequenceDiagram"])
  THEN validateSequenceDiagram(lines)
  ELSE valid

\* validateMermaidSyntax as it would be if the per-type validator ran before
\* the delimiter loop
validateMermaidSyntax_perTypeFirst(d) ==
  LET lines == split(d, "\n")
      r     == bracketLoop(lines, 0)
      t     == validateByType(lines)
  IN  IF ~hasValidType(firstLineOf(lines))
      THEN invalidAt(typeError, 1,
                     <<"Add a valid diagram type declaration at the beginning">>)
      ELSE IF ~t.isValid THEN t
      ELSE IF r # noReturn THEN r
      ELSE valid

validateMermaidSyntax(d) ==
  LET lines == split(d, "\n")
      r     == bracketLoop(lines, 0)
  IN  IF ~hasValidType(firstLineOf(lines))
      THEN invalidAt(typeError, 1,
                     <<"Add a valid diagram type declaration at the beginning">>)
      ELSE IF r # noReturn THEN r
      ELSE validateByType(lines)

(***************************************************************************)
(* detectDiagramType(diagram)                                              *)
(***************************************************************************)
detectDiagramType(d) ==
  LET firstLine == trim(split(d, "\n")[1])
  IN  IF startsWith(firstLine, chars["graph"]) THEN "flowchart"
      ELSE IF startsWith(firstLine, chars["flowchart"]) THEN "flowchart"
      ELSE IF startsWith(firstLine, chars["sequenceDiagram"]) THEN "sequence"
      ELSE IF startsWith(firstLine, chars["classDiagram"]) THEN "class"
      ELSE IF startsWith(firstLine, chars["stateDiagram"]) THEN "state"
      ELSE IF startsWith(firstLine, chars["erDiagram"]) THEN "er"
      ELSE IF startsWith(firstLine, chars["gantt"]) THEN "gantt"
      ELSE IF startsWith(firstLine, chars["pie"]) THEN "pie"
      ELSE IF startsWith(firstLine, chars["journey"]) THEN "journey"
      ELSE IF startsWith(firstLine, chars["gitGraph"]) THEN "gitGraph"
      ELSE IF startsWith(firstLine, chars["mindmap"]) THEN "mindmap"
      ELSE IF startsWith(firstLine, chars["timeline"]) THEN "timeline"
      ELSE "unknown"

(***************************************************************************)
(* countNodes(diagram)                                                     *)
(***************************************************************************)
\* where the match of /\w+\[.*?\]/ that starts at i ends (0: no match at i):
\* the greedy \w+ takes the whole run, the lazy .*? stops at the first "]"
\* and never crosses a line terminator
nodeMatchEnd(s, i) ==
  IF i < 1 \/ i > Len(s) \/ s[i] \notin WordChars THEN 0
  ELSE LET open   == runEnd(s, WordChars, i) + 1
           closes == {j \in (open + 1)..Len(s) : s[j] = "]"}
       IN  IF ~matchAt(s, <<"[">>, open) \/ closes = {} THEN 0
           ELSE IF \A k \in (open + 1)..(SetMin(closes) - 1) : dotAt(s, k)
                THEN SetMin(closes) ELSE 0

RECURSIVE nodeMatches(_, _)
\* diagram.match(/\w+\[.*?\]/g) || [], searching from position pos: the
\* expression is tried at each position in turn, and the search resumes after
\* the end of a match
nodeMatches(s, pos) ==
  LET e == nodeMatchEnd(s, pos)
  IN  IF pos > Len(s) THEN <<>>
      ELSE IF e > 0 THEN <<SubSeq(s, pos, e)>> \o nodeMatches(s, e + 1)
      ELSE nodeMatches(s, pos + 1)

\* where the match of /(\w+)\s*(-->|---|-.->|==>)\s*(\w+)/ that starts at i
\* ends (0: no match at i): the first alternative of the arrow after which
\* \s*(\w+) matches
connectionMatchEnd(s, i) ==
  IF i < 1 \/ i > Len(s) \/ s[i] \notin WordChars THEN 0
  ELSE LET q     == runEnd(s, WhiteSpace, runEnd(s, WordChars, i) + 1) + 1
           alts  == arrowAlternatives(s, q)
           to(k) == runEnd(s, WhiteSpace, q + alts[k]) + 1
           ok    == {k \in 1..Len(alts) :
                       alts[k] > 0 /\ to(k) <= Len(s) /\ s[to(k)] \in WordChars}
       IN  IF ok = {} THEN 0 ELSE runEnd(s, WordChars, to(SetMin(ok)))

RECURSIVE connectionMatches(_, _)
\* diagram.match(/(\w+)\s*(-->|---|-.->|==>)\s*(\w+)/g) || [], from pos: a
\* global match resumes after the end of the previous match
connectionMatches(s, pos) ==
  LET e == connectionMatchEnd(s, pos)
  IN  IF pos > Len(s) THEN <<>>
      ELSE IF e > 0 THEN <<SubSeq(s, pos, e)>> \o connectionMatches(s, e + 1)
      ELSE connectionMatches(s, pos + 1)

\* what the forEach callback adds to nodeIds for one match
idsOfMatch(match) ==
  LET parts == splitArrow(match)
  IN  (IF parts[1] # <<>> THEN {trim(parts[1])} ELSE {})
        \cup (IF Len(parts) >= 2 /\ parts[2] # <<>> THEN {trim(parts[2])} ELSE {})

\* nodeIds after the forEach
nodeIds(d) ==
  LET matches == connectionMatches(d, 1)
  IN  UNION {idsOfMatch(matches[k]) : k \in 1..Len(matches)}

countNodes(d) == Len(nodeMatches(d, 1)) + Cardinality(nodeIds(d))

(***************************************************************************)
(* app.post('/validate', ...)                                              *)
(***************************************************************************)
\* no response sent
noResponse ==
  [status |-> 0, keys |-> {}, valid |-> FALSE, error |-> <<>>, line |-> 0,
   suggestions |-> <<>>, message |-> "", diagramType |-> "", nodeCount |-> 0,
   details |-> ""]

\* res.status(400).json({ valid: false, error, line, suggestions }): JSON
\* leaves out a property whose value is undefined
response400(v) ==
  [noResponse EXCEPT !.status = 400,
                     !.keys = {"valid"} \cup (v.keys \ {"isValid"}),
                     !.error = v.error, !.line = v.line,
                     !.suggestions = v.suggestions]

\* res.json({ valid: true, message, diagramType, nodeCount, timestamp })
response200(d) ==
  [noResponse EXCEPT !.status = 200,
                     !.keys = {"valid", "message", "diagramType", "nodeCount",
                               "timestamp"},
                     !.valid = TRUE, !.message = "Diagram is valid",
                     !.diagramType = detectDiagramType(d),
                     !.nodeCount = countNodes(d)]

\* the catch block: res.status(500).json({ valid: false, error, details })
response500(details) ==
  [noResponse EXCEPT !.status = 500, !.keys = {"valid", "error", "details"},
                     !.error = <<"Internal validation error">>,
                     !.details = details]

\* validateMermaidSyntax threw before returning
threw ==
  [keys |-> {"thrown"}, isValid |-> FALSE, error |-> <<>>, line |-> 0,
   suggestions |-> <<>>]

Init ==
  /\ diagram = <<>>
  /\ validation = noReturn
  /\ response = noResponse
  /\ op = "none"

\* validateMermaidSyntax(d) called on a string d of D
Validate(D) ==
  /\ op = "none"
  /\ \E d \in D :
       /\ diagram' = d
       /\ validation' = validateMermaidSyntax(d)
       /\ response' = noResponse
       /\ op' = "validateMermaidSyntax"

\* POST /validate with the JSON body { diagram: d }, d in D.  An empty d is
\* falsy, so "req.body.diagram || req.body" is the body object, whose split is
\* not a function: the call throws and the catch block answers 500.
PostValidate(D) ==
  /\ op = "none"
  /\ \E d \in D :
       /\ diagram' = d
       /\ op' = "post"
       /\ IF d = <<>>
          THEN /\ validation' = threw
               /\ response' = response500("diagram.split is not a function")
          ELSE LET v == validateMermaidSyntax(d)
               IN  /\ validation' = v
                   /\ response' = IF ~v.isValid THEN response400(v)
                                  ELSE response200(d)

\* the call returns: its locals (diagram, validation) are gone, and nothing
\* else was written
Return ==
  /\ op # "none"
  /\ diagram' = <<>>
  /\ validation' = noReturn
  /\ response' = noResponse
  /\ op' = "none"

(***************************************************************************)
(* The documents of the model: a first line and up to a bounded number of  *)
(* further lines, joined by "\n".                                          *)
(***************************************************************************)
MaxLines == 2

MaxFlowLines == 3

MaxSeqLines == 2

\* first lines: `graph TD`, `sequenceDiagram`, `quadrantChart`, `pie`, ``, `%% c`, `  flowchart LR`, `chart`, `graph {`
FirstLines ==
  { <<"g", "r", "a", "p", "h", " ", "T", "D">>,
    <<"s", "e", "q", "u", "e", "n", "c", "e", "D", "i", "a", "g", "r", "a", "m">>,
    <<"q", "u", "a", "d", "r", "a", "n", "t", "C", "h", "a", "r", "t">>,
    <<"p", "i", "e">>,
    <<>>,
    <<"%", "%", " ", "c">>,
    <<" ", " ", "f", "l", "o", "w", "c", "h", "a", "r", "t", " ", "L", "R">>,
    <<"c", "h", "a", "r", "t">>,
    <<"g", "r", "a", "p", "h", " ", "{">> }

\* further lines: ``, `%% (`, `A[`, `B(x`, `C}`, `graph TD`, `->>B`, `subgraph s`, `A[x]`, `end`
BodyLines ==
  { <<>>,
    <<"%", "%", " ", "(">>,
    <<"A", "[">>,
    <<"B", "(", "x">>,
    <<"C", "}">>,
    <<"g", "r", "a", "p", "h", " ", "T", "D">>,
    <<"-", ">", ">", "B">>,
    <<"s", "u", "b", "g", "r", "a", "p", "h", " ", "s">>,
    <<"A", "[", "x", "]">>,
    <<"e", "n", "d">> }

\* first lines of flowcharts: `graph TD`, `flowchart LR`
FlowFirstLines ==
  { <<"g", "r", "a", "p", "h", " ", "T", "D">>,
    <<"f", "l", "o", "w", "c", "h", "a", "r", "t", " ", "L", "R">> }

\* further lines of flowcharts: `subgraph s`, `  end`, `endA`, `A -->`, `B(`, `A --> B --> C`, `  A[Start] --> B[End]`, `%% subgraph`
FlowBodyLines ==
  { <<"s", "u", "b", "g", "r", "a", "p", "h", " ", "s">>,
    <<" ", " ", "e", "n", "d">>,
    <<"e", "n", "d", "A">>,
    <<"A", " ", "-", "-", ">">>,
    <<"B", "(">>,
    <<"A", " ", "-", "-", ">", " ", "B", " ", "-", "-", ">", " ", "C">>,
    <<" ", " ", "A", "[", "S", "t", "a", "r", "t", "]", " ", "-", "-", ">", " ", "B", "[", "E", "n", "d", "]">>,
    <<"%", "%", " ", "s", "u", "b", "g", "r", "a", "p", "h">> }

\* first lines of sequence diagrams: `sequenceDiagram`, `  sequenceDiagram`
SeqFirstLines ==
  { <<"s", "e", "q", "u", "e", "n", "c", "e", "D", "i", "a", "g", "r", "a", "m">>,
    <<" ", " ", "s", "e", "q", "u", "e", "n", "c", "e", "D", "i", "a", "g", "r", "a", "m">> }

\* further lines of sequence diagrams: `A->>B: hello`, `->>B`, `A->>`, `participant A`, `C-->>D`, `A ->> B: x ->>`, `%% ->>`, ``, `A-->B: hi`, `note: A->>B`, `A->> [B]`, `B[`
SeqBodyLines ==
  { <<"A", "-", ">", ">", "B", ":", " ", "h", "e", "l", "l", "o">>,
    <<"-", ">", ">", "B">>,
    <<"A", "-", ">", ">">>,
    <<"p", "a", "r", "t", "i", "c", "i", "p", "a", "n", "t", " ", "A">>,
    <<"C", "-", "-", ">", ">", "D">>,
    <<"A", " ", "-", ">", ">", " ", "B", ":", " ", "x", " ", "-", ">", ">">>,
    <<"%", "%", " ", "-", ">", ">">>,
    <<>>,
    <<"A", "-", "-", ">", "B", ":", " ", "h", "i">>,
    <<"n", "o", "t", "e", ":", " ", "A", "-", ">", ">", "B">>,
    <<"A", "-", ">", ">", " ", "[", "B", "]">>,
    <<"B", "[">> }

RECURSIVE joinLines(_)
\* the text whose lines are ls
joinLines(ls) ==
  IF Len(ls) = 1 THEN ls[1] ELSE ls[1] \o <<"\n">> \o joinLines(Tail(ls))

\* the texts of a first line from F followed by at most n lines from L
Texts(F, L, n) ==
  {joinLines(<<f>> \o b) : f \in F, b \in UNION {[1..k -> L] : k \in 0..n}}

Docs == Texts(FirstLines, BodyLines, MaxLines)

FlowDocs == Texts(FlowFirstLines, FlowBodyLines, MaxFlowLines)

SeqDocs == Texts(SeqFirstLines, SeqBodyLines, MaxSeqLines)

Next == Validate(Docs) \/ PostValidate(Docs) \/ Return

Spec == Init /\ [][Next]_vars

NextFlow == Validate(FlowDocs) \/ PostValidate(FlowDocs) \/ Return

SpecFlow == Init /\ [][NextFlow]_vars

NextSeq == Validate(SeqDocs) \/ PostValidate(SeqDocs) \/ Return

SpecSeq == Init /\ [][NextSeq]_vars

(***************************************************************************)
(* The statements checked of the program.  A line is read as the source    *)
(* reads it, trimmed; a content line is a line that is neither blank nor a *)
(* %% comment.                                                             *)
(***************************************************************************)
\* validateMermaidSyntax was called on the string diagram and returned
Returned == op # "none" /\ validation # threw

\* the trimmed lines of a text, numbered from 1
TrimmedLines(d) ==
  LET ls == split(d, "\n") IN [n \in 1..Len(ls) |-> trim(ls[n])]

RegisteredKeywords ==
  {"graph", "flowchart", "sequenceDiagram", "classDiagram", "stateDiagram",
   "erDiagram", "gitGraph", "journey", "gantt", "pie", "quadrantChart",
   "mindmap", "timeline"}

Registered(t) == \E k \in RegisteredKeywords : startsWith(t, chars[k])

FlowFamily(t) == startsWith(t, chars["graph"]) \/ startsWith(t, chars["flowchart"])

IsContent(t) == t # <<>> /\ ~startsWith(t, <<"%", "%">>)

Unbalanced(t) ==
  \E pair \in {<<"[", "]">>, <<"(", ")">>, <<"{", "}">>} :
    countOf(t, pair[1]) # countOf(t, pair[2])

\* the numbers of the content lines with an unequal number of some delimiter
UnbalancedLines(T) == {n \in 1..Len(T) : IsContent(T[n]) /\ Unbalanced(T[n])}

IsTypeError(v) ==
  /\ v.isValid = FALSE
  /\ v.error[1] = "Invalid diagram type. Must start with one of: "
  /\ \A k \in RegisteredKeywords : \E i \in 1..Len(v.error) : v.error[i] = k
  /\ "line" \in v.keys /\ v.line = 1

IsDelimiterError(v) ==
  /\ v.isValid = FALSE
  /\ v.error[1] \in {"Unmatched square brackets on line ",
                     "Unmatched parentheses on line ",
                     "Unmatched curly braces on line "}
  /\ "line" \in v.keys
  /\ Tail(v.error) = toString(v.line)

\* a subgraph line with no later line equal to end
OpenSubgraph(T) ==
  \E n \in 1..Len(T) :
    /\ startsWith(T[n], chars["subgraph"])
    /\ \A m \in (n + 1)..Len(T) : T[m] # chars["end"]

\* an identifier character stands before position q, whitespace apart
IdentifierBefore(t, q) ==
  \E l \in 1..(q - 1) :
    t[l] \in WordChars /\ \A k \in (l + 1)..(q - 1) : t[k] \in WhiteSpace

\* an identifier character stands at or after position p, whitespace apart
IdentifierFrom(t, p) ==
  \E r \in p..Len(t) :
    t[r] \in WordChars /\ \A k \in p..(r - 1) : t[k] \in WhiteSpace

ContainsMessageArrow(t) ==
  \E q \in 1..Len(t) : matchAt(t, <<"-", ">", ">">>, q)

\* identifier, arrow, identifier somewhere in the line (a message body may follow)
HasMessageForm(t) ==
  \E q \in 1..Len(t) : \E a \in {<<"-", ">", ">">>, <<"-", "-", ">", ">">>} :
    matchAt(t, a, q) /\ IdentifierBefore(t, q) /\ IdentifierFrom(t, q + Len(a))

\* the content lines with a message arrow and no identifier-arrow-identifier
BadMessageLines(T) ==
  {n \in 1..Len(T) :
     IsContent(T[n]) /\ ContainsMessageArrow(T[n]) /\ ~HasMessageForm(T[n])}

\* C1: when the trimmed first line starts with none of the 13 registered
\* keywords, validateMermaidSyntax returns an Invalid result with line = 1 and
\* an error that lists the valid types (also for the empty string, and for a
\* blank or comment first line followed by a correct declaration).
C1_UnregisteredFirstLineIsTypeError ==
  (Returned /\ ~Registered(TrimmedLines(diagram)[1])) => IsTypeError(validation)

\* C1 witness: the first line is blank, the second is `graph TD`, and the
\* call returned the type error for line 1
C1_Witness ==
  LET T == TrimmedLines(diagram)
  IN  /\ op = "validateMermaidSyntax"
      /\ Len(T) >= 2 /\ T[1] = <<>> /\ T[2] = <<"g", "r", "a", "p", "h", " ", "T", "D">>
      /\ IsTypeError(validation)

\* C2 as stated: in every document with a content line whose delimiters are
\* unequal in number, the result is Invalid and its line is the number of the
\* first such line; a delimiter error never names a blank or comment line.
C2_Original ==
  LET U == UnbalancedLines(TrimmedLines(diagram))
  IN  Returned =>
        /\ U # {} => /\ validation.isValid = FALSE
                     /\ "line" \in validation.keys
                     /\ validation.line = SetMin(U)
        /\ IsDelimiterError(validation) => validation.line \in U

\* C2 as amended: the same, for the documents whose first line starts with a
\* registered type keyword (the others get the type error for line 1).
C2_FirstUnbalancedLineReported ==
  LET T == TrimmedLines(diagram)
      U == UnbalancedLines(T)
  IN  Returned =>
        /\ (Registered(T[1]) /\ U # {}) => /\ validation.isValid = FALSE
                                           /\ "line" \in validation.keys
                                           /\ validation.line = SetMin(U)
        /\ IsDelimiterError(validation) => validation.line \in U

\* C2 witness: a comment line with unequal delimiters stands before the first
\* unbalanced content line, and that content line is the one reported
C2_Witness ==
  LET T == TrimmedLines(diagram)
      U == UnbalancedLines(T)
  IN  /\ Returned /\ Registered(T[1]) /\ U # {}
      /\ \E n \in 1..(SetMin(U) - 1) : ~IsContent(T[n]) /\ Unbalanced(T[n])
      /\ IsDelimiterError(validation) /\ validation.line = SetMin(U)

\* C3: a flowchart-family document that passes the delimiter check and has a
\* subgraph line with no later line equal to end is Invalid with the error
\* "Unclosed subgraph", no line property and at least one suggestion.
C3_UnclosedSubgraph ==
  LET T == TrimmedLines(diagram)
  IN  (Returned /\ FlowFamily(T[1]) /\ UnbalancedLines(T) = {} /\ OpenSubgraph(T))
        => /\ validation.isValid = FALSE
           /\ validation.error = <<"Unclosed subgraph">>
           /\ "line" \notin validation.keys
           /\ Len(validation.suggestions) > 0

\* C3 witness: a subgraph line is followed by a line that starts with "end"
\* without being equal to it, and the result is the unclosed-subgraph error
C3_Witness ==
  LET T == TrimmedLines(diagram)
  IN  /\ Returned /\ FlowFamily(T[1]) /\ UnbalancedLines(T) = {} /\ OpenSubgraph(T)
      /\ \E n \in 1..Len(T) : \E m \in (n + 1)..Len(T) :
           startsWith(T[n], chars["subgraph"]) /\ startsWith(T[m], chars["end"])
      /\ validation.error = <<"Unclosed subgraph">>
      /\ "line" \notin validation.keys

\* the parts of a connector line around its connectors: one of them is blank
LacksEndpoint(t) ==
  /\ \E c \in {"-->", "---", "-.->", "==>"} : includes(t, chars[c])
  /\ \E k \in 1..Len(splitArrow(t)) : trim(splitArrow(t)[k]) = <<>>

\* C4: in a flowchart-family document, a content line with a connector token
\* and no source or no target token is reported: Invalid, error "Invalid
\* arrow syntax on line N", line = N.
C4_DanglingArrowRejected ==
  LET T == TrimmedLines(diagram)
      D == {n \in 1..Len(T) : IsContent(T[n]) /\ LacksEndpoint(T[n])}
  IN  (Returned /\ FlowFamily(T[1]) /\ UnbalancedLines(T) = {} /\ D # {})
        => /\ validation.isValid = FALSE
           /\ validation.error = <<"Invalid arrow syntax on line ">> \o toString(SetMin(D))
           /\ "line" \in validation.keys /\ validation.line = SetMin(D)

\* C5: in a sequence diagram that passes the delimiter check, a content line
\* with a message arrow passes when it holds identifier, arrow, identifier,
\* and the first one that does not is reported: Invalid, error "Invalid
\* message syntax on line N", line = N, the suggestion "Use format:
\* Actor1->>Actor2: Message"; nothing else fails (undeclared participants
\* included).
C5_MessageSyntax ==
  LET T   == TrimmedLines(diagram)
      bad == BadMessageLines(T)
  IN  (Returned /\ startsWith(T[1], chars["sequenceDiagram"]) /\ UnbalancedLines(T) = {})
        => IF bad = {} THEN validation.isValid = TRUE
           ELSE /\ validation.isValid = FALSE
                /\ validation.error = <<"Invalid message syntax on line ">> \o toString(SetMin(bad))
                /\ "line" \in validation.keys /\ validation.line = SetMin(bad)
                /\ validation.suggestions = <<"Use format: Actor1->>Actor2: Message">>

\* C5 witness: a well-formed message between undeclared participants stands
\* before the first ill-formed one, which is the line reported
C5_Witness ==
  LET T   == TrimmedLines(diagram)
      bad == BadMessageLines(T)
  IN  /\ Returned /\ startsWith(T[1], chars["sequenceDiagram"])
      /\ UnbalancedLines(T) = {} /\ bad # {}
      /\ \E n \in 2..(SetMin(bad) - 1) : HasMessageForm(T[n])
      /\ \A n \in 1..Len(T) : ~startsWith(T[n], chars["participant"])
      /\ validation.isValid = FALSE /\ validation.line = SetMin(bad)

\* line j of T violates its type's rule: an ill-formed message of a sequence
\* diagram, or a subgraph of a flowchart that no later line ends
PerTypeViolation(T, j) ==
  \/ startsWith(T[1], chars["sequenceDiagram"]) /\ j \in BadMessageLines(T)
  \/ /\ FlowFamily(T[1]) /\ startsWith(T[j], chars["subgraph"])
     /\ \A m \in (j + 1)..Len(T) : T[m] # chars["end"]

\* C6: the stages run in order and the first violation is the result: an
\* unregistered type gives the type error whatever else is wrong; otherwise a
\* delimiter mismatch gives the delimiter error of the first mismatched line,
\* also when an earlier line violates the per-type rule; otherwise the result
\* is Valid or the per-type error; one violation is reported, never several.
C6_StageOrder ==
  LET T == TrimmedLines(diagram)
      U == UnbalancedLines(T)
  IN  Returned =>
        /\ ~Registered(T[1]) => IsTypeError(validation)
        /\ (Registered(T[1]) /\ U # {})
             => IsDelimiterError(validation) /\ validation.line = SetMin(U)
        /\ (Registered(T[1]) /\ U = {})
             => ~IsTypeError(validation) /\ ~IsDelimiterError(validation)
        /\ ~validation.isValid => Len(validation.suggestions) = 1

\* C6 witness: a per-type violation on line j, a delimiter mismatch first on a
\* later line k, and the delimiter error of line k as the result
C6_Witness ==
  LET T == TrimmedLines(diagram)
      U == UnbalancedLines(T)
  IN  /\ Returned /\ Registered(T[1]) /\ U # {}
      /\ \E j \in 1..(SetMin(U) - 1) : PerTypeViolation(T, j)
      /\ IsDelimiterError(validation) /\ validation.line = SetMin(U)

\* the identifier that ends just before position q of d, whitespace apart
\* (<<>>: none)
IdentifierLeftOf(d, q) ==
  LET ends == {l \in 1..(q - 1) :
                 d[l] \in WordChars /\ \A k \in (l + 1)..(q - 1) : d[k] \in WhiteSpace}
  IN  IF ends = {} THEN <<>>
      ELSE LET l == SetMax(ends)
               b == SetMin({k \in 1..l : \A m \in k..l : d[m] \in WordChars})
           IN  SubSeq(d, b, l)

\* the identifier that starts at or after position p of d, whitespace apart
IdentifierRightOf(d, p) ==
  LET r == runEnd(d, WhiteSpace, p) + 1
  IN  IF r <= Len(d) /\ d[r] \in WordChars THEN SubSeq(d, r, runEnd(d, WordChars, r))
      ELSE <<>>

\* the identifiers joined by a connector token: for every connector with an
\* identifier on its left and on its right, both of them
ConnectorIdentifiers(d) ==
  UNION { LET left  == IdentifierLeftOf(d, q)
              right == IdentifierRightOf(d, q + arrowAt(d, q))
          IN  IF left # <<>> /\ right # <<>> THEN {left, right} ELSE {}
          : q \in {p \in 1..Len(d) : arrowAt(d, p) > 0} }

\* graph TD\n  A[Start] --> B[End]
ReadmeExample ==
  <<"g", "r", "a", "p", "h", " ", "T", "D", "\n", " ", " ", "A", "[", "S", "t",
    "a", "r", "t", "]", " ", "-", "-", ">", " ", "B", "[", "E", "n", "d", "]">>

\* C8: for a document answered as valid, nodeCount is the number of
\* identifier[label] tokens plus the number of distinct identifiers next to a
\* connector, the last node of a chain A --> B --> C included; the example of
\* the README is valid, a flowchart, with nodeCount >= 2.
C8_NodeCount ==
  op = "post" =>
    /\ response.status = 200 =>
         response.nodeCount = Len(nodeMatches(diagram, 1))
                                + Cardinality(ConnectorIdentifiers(diagram))
    /\ diagram = ReadmeExample =>
         /\ response.status = 200
         /\ response.diagramType = "flowchart"
         /\ response.nodeCount >= 2

\* C9: an accepted document has a detected type other than "unknown", and
\* "unknown" is detected only for documents rejected with the type error.
C9_DetectedTypeKnownIffAccepted ==
  Returned =>
    /\ validation.isValid => detectDiagramType(diagram) # "unknown"
    /\ response.status = 200 => response.diagramType # "unknown"
    /\ detectDiagramType(diagram) = "unknown" => IsTypeError(validation)

\* the subgraph lines minus the end lines
SubgraphDepth(T) ==
  Cardinality({n \in 1..Len(T) : startsWith(T[n], chars["subgraph"])})
    - Cardinality({n \in 1..Len(T) : T[n] = chars["end"]})

\* C10: a flowchart-family document that passes the type and delimiter checks
\* and whose subgraph depth (+1 at a subgraph line, -1 at an end line) is not
\* zero at the end is Invalid.
C10_NonZeroDepthRejected ==
  LET T == TrimmedLines(diagram)
  IN  (Returned /\ FlowFamily(T[1]) /\ UnbalancedLines(T) = {} /\ SubgraphDepth(T) # 0)
        => validation.isValid = FALSE

=============================================================================
